---- MODULE Spec2Model ----
(***************************************************************************)
(* Sector and ring geometry builders of Source/Core/SectorGeometry.js and  *)
(* Source/Core/RingGeometry.js, and the ring worker task of                *)
(* Source/Workers/createRingGeometry.js.                                   *)
(*                                                                         *)
(* JavaScript values are records [t, n, d]: t is the kind of value         *)
(* ("undefined", "string" for a non-numeric string, "nan", "num") and a    *)
(* "num" is the exact rational n/d in lowest terms with d > 0.  Irrational *)
(* constants are replaced by rationals (PI is 157/50), so that every       *)
(* comparison and Math.ceil the code performs is computed exactly.         *)
(* Math.cos and Math.sin are kept symbolic: a point of the unit circle is  *)
(* represented by its angle, and the incremental rotation                  *)
(*   x' = cosT*x - sinT*y,  y' = sinT*x + cosT*y                           *)
(* by the addition of the step angle (the angle-sum identities).           *)
(***************************************************************************)
EXTENDS Integers, Sequences, FiniteSets, TLC

VARIABLES pc, options, debug, this, thrown, ellipseLog, geometry, outlines, task

vars == <<pc, options, debug, this, thrown, ellipseLog, geometry, outlines, task>>

(***************************************************************************)
(* JavaScript numbers                                                      *)
(***************************************************************************)
Abs(a) == IF a < 0 THEN -a ELSE a

RECURSIVE GCD(_, _)
GCD(a, b) == IF b = 0 THEN Abs(a) ELSE GCD(Abs(b), Abs(a) % Abs(b))

Undefined == [t |-> "undefined", n |-> 0, d |-> 1]

NonNumericString == [t |-> "string", n |-> 0, d |-> 1]

NaN == [t |-> "nan", n |-> 0, d |-> 1]

\* the number n/d, d # 0, in lowest terms
Num(n, d) ==
    LET g == GCD(n, d)
        s == IF d < 0 THEN -1 ELSE 1
    IN  [t |-> "num", n |-> s * (n \div g), d |-> s * (d \div g)]

Zero == Num(0, 1)

\* typeof v
TypeOf(v) ==
    CASE v.t = "undefined" -> "undefined"
      [] v.t = "string"    -> "string"
      [] OTHER             -> "number"

\* ToNumber(v), applied by the arithmetic and relational operators
ToNumber(v) == IF v.t = "num" THEN v ELSE NaN

\* a * b
Mul(a, b) ==
    LET x == ToNumber(a)
        y == ToNumber(b)
    IN  IF x.t = "nan" \/ y.t = "nan" THEN NaN
        ELSE LET g1 == GCD(x.n, y.d)
                 g2 == GCD(y.n, x.d)
             IN  Num((x.n \div g1) * (y.n \div g2), (x.d \div g2) * (y.d \div g1))

\* a / b (the divisors of the code are never zero when they are numbers)
Div(a, b) ==
    LET x == ToNumber(a)
        y == ToNumber(b)
    IN  IF x.t = "nan" \/ y.t = "nan" \/ y.n = 0 THEN NaN
        ELSE Mul(x, Num(y.d, y.n))

\* a + b
Add(a, b) ==
    LET x == ToNumber(a)
        y == ToNumber(b)
    IN  IF x.t = "nan" \/ y.t = "nan" THEN NaN
        ELSE LET g == GCD(x.d, y.d)
             IN  Num(x.n * (y.d \div g) + y.n * (x.d \div g), x.d * (y.d \div g))

\* a < b, a <= b, a > b, a >= b: false as soon as an operand is NaN
Lt(a, b) ==
    LET x == ToNumber(a)
        y == ToNumber(b)
    IN  x.t = "num" /\ y.t = "num" /\ x.n * y.d < y.n * x.d

Le(a, b) ==
    LET x == ToNumber(a)
        y == ToNumber(b)
    IN  x.t = "num" /\ y.t = "num" /\ x.n * y.d <= y.n * x.d

Gt(a, b) == Lt(b, a)

Ge(a, b) == Le(b, a)

\* Math.ceil(a)
Ceil(a) ==
    LET x == ToNumber(a)
    IN  IF x.t = "nan" THEN NaN ELSE Num(-((-x.n) \div x.d), 1)

\* the length of a typed array created with new XArray(v): ToIndex(v)
TypedArrayLength(v) == IF v.t = "num" /\ v.n > 0 THEN v.n \div v.d ELSE 0

\* the value read back after storing the integer v in a Uint16Array
ToUint16(v) == v % 65536

(***************************************************************************)
(* Library helpers imported by the builders                                *)
(***************************************************************************)
\* defined(value)
defined(v) == v.t # "undefined"

\* defaultValue(a, b)
defaultValue(a, b) == IF defined(a) THEN a ELSE b

PI == Num(157, 50)

TWO_PI == Mul(Num(2, 1), PI)

RADIANS_PER_DEGREE == Div(PI, Num(180, 1))

\* CesiumMath.toRadians(degrees).  A debug build rejects an undefined
\* argument, a release build has the check stripped.
toRadians(degrees, dbg) ==
    IF dbg /\ ~defined(degrees)
    THEN [threw |-> TRUE, error |-> "DeveloperError: degrees is required.", value |-> NaN]
    ELSE [threw |-> FALSE, error |-> "", value |-> Mul(degrees, RADIANS_PER_DEGREE)]

(***************************************************************************)
(* SectorGeometry                                                          *)
(***************************************************************************)
Throw(msg) == [threw |-> TRUE, error |-> msg, value |-> <<>>]

Return(v) == [threw |-> FALSE, error |-> "", value |-> v]

\* SectorGeometry with the upper bound of sectorAngle tested by > in place of >=
SectorGeometry_InclusiveBound(opts, dbg) ==
    LET radius      == opts.radius
        conv        == toRadians(opts.sectorAngle, dbg)
        sectorAngle == conv.value
        granularity == defaultValue(opts.granularity, Num(1, 50))
        rotation    == defaultValue(opts.rotation, Zero)
    IN  IF conv.threw THEN Throw(conv.error)
        ELSE IF ~defined(radius) THEN Throw("DeveloperError: radius must be specified!")
        ELSE IF TypeOf(radius) # "number" THEN Throw("DeveloperError: radius must be a number!")
        ELSE IF Le(radius, Zero) THEN Throw("DeveloperError: radius must be a positive number")
        ELSE IF ~defined(sectorAngle) THEN Throw("DeveloperError: sectorAngle must be specified!")
        ELSE IF TypeOf(sectorAngle) # "number" THEN Throw("DeveloperError: sectorAngle must be a number!")
        ELSE IF Le(sectorAngle, Zero) \/ Gt(sectorAngle, TWO_PI)
             THEN Throw("DeveloperError: sectorAngle must be a positive number and less than 360")
        ELSE IF Lt(rotation, Zero) \/ Gt(rotation, Num(360, 1))
             THEN Throw("DeveloperError: rotation angle must be between 0 and 360 degrees")
        ELSE IF Le(granularity, Zero)
             THEN Throw("DeveloperError: granularity must be greater than zero.")
        ELSE Return([t            |-> "object",
                     _radius      |-> radius,
                     _sectorAngle |-> sectorAngle,
                     _rotation    |-> rotation,
                     _granularity |-> granularity,
                     _workerName  |-> "createSectorGeometry"])

\* new SectorGeometry(options)
SectorGeometry(opts, dbg) ==
    LET radius      == opts.radius
        conv        == toRadians(opts.sectorAngle, dbg)
        sectorAngle == conv.value
        granularity == defaultValue(opts.granularity, Num(1, 50))
        rotation    == defaultValue(opts.rotation, Zero)
    IN  IF conv.threw THEN Throw(conv.error)
        ELSE IF ~defined(radius) THEN Throw("DeveloperError: radius must be specified!")
        ELSE IF TypeOf(radius) # "number" THEN Throw("DeveloperError: radius must be a number!")
        ELSE IF Le(radius, Zero) THEN Throw("DeveloperError: radius must be a positive number")
        ELSE IF ~defined(sectorAngle) THEN Throw("DeveloperError: sectorAngle must be specified!")
        ELSE IF TypeOf(sectorAngle) # "number" THEN Throw("DeveloperError: sectorAngle must be a number!")
        ELSE IF Le(sectorAngle, Zero) \/ Ge(sectorAngle, TWO_PI)
             THEN Throw("DeveloperError: sectorAngle must be a positive number and less than 360")
        ELSE IF Lt(rotation, Zero) \/ Gt(rotation, Num(360, 1))
             THEN Throw("DeveloperError: rotation angle must be between 0 and 360 degrees")
        ELSE IF Le(granularity, Zero)
             THEN Throw("DeveloperError: granularity must be greater than zero.")
        ELSE Return([t            |-> "object",
                     _radius      |-> radius,
                     _sectorAngle |-> sectorAngle,
                     _rotation    |-> rotation,
                     _granularity |-> granularity,
                     _workerName  |-> "createSectorGeometry"])

\* var numPts = 1 + Math.ceil(sectorAngle / granularity)
NumPts(sectorAngle, granularity) == Add(Num(1, 1), Ceil(Div(sectorAngle, granularity)))

\* var theta = sectorAngle / (numPts - 1)
Theta(sectorAngle, numPts) == Div(sectorAngle, Add(numPts, Num(-1, 1)))

\* The double stored for cos(angle) * radius, sin(angle) * radius and 0.0.
XTimes(angle, radius) == <<"cos", angle.n, angle.d, radius.n, radius.d>>

YTimes(angle, radius) == <<"sin", angle.n, angle.d, radius.n, radius.d>>

Zero64 == <<"0.0", 0, 1, 0, 1>>

\* PositionBody with the direction rotated before the point is stored
PositionBody_RotateFirst(s, radius, theta) ==
    [i     |-> s.i + 3,
     len   |-> s.len,
     angle |-> Add(s.angle, theta),
     out   |-> s.out \o <<XTimes(Add(s.angle, theta), radius),
                          YTimes(Add(s.angle, theta), radius), Zero64>>]

\* One pass of the body of the position loop.  s.i is the slot about to be
\* written, s.angle the angle of the direction (x, y), s.out the doubles
\* written so far, in slot order from slot 3 on.
PositionBody(s, radius, theta) ==
    [i     |-> s.i + 3,
     len   |-> s.len,
     angle |-> Add(s.angle, theta),
     out   |-> s.out \o <<XTimes(s.angle, radius), YTimes(s.angle, radius), Zero64>>]

\* for (i = 3; i < positions.length; i++) { body }: the body is run while the
\* loop condition holds and at most fuel times, the two halves of the fuel
\* one after the other.
RECURSIVE PositionLoop(_, _, _, _)
PositionLoop(s, radius, theta, fuel) ==
    IF ~(s.i < s.len) THEN s
    ELSE IF fuel <= 1 THEN PositionBody(s, radius, theta)
    ELSE LET h == PositionLoop([s EXCEPT !.out = <<>>], radius, theta, fuel \div 2)
             r == PositionLoop([h EXCEPT !.out = <<>>], radius, theta, fuel - (fuel \div 2))
         IN  [r EXCEPT !.out = s.out \o h.out \o r.out]

\* IndexBody with the vertex counter incremented before its first use
IndexBody_OffByOne(s) ==
    [j   |-> s.j + 3,
     i   |-> s.i + 1,
     len |-> s.len,
     out |-> s.out \o <<ToUint16(0), ToUint16(s.i + 1), ToUint16(s.i + 2)>>]

\* One pass of the body of the index loop: indices[j] = 0;
\* indices[++j] = i; indices[++j] = ++i; and the j++ of the loop.
IndexBody(s) ==
    [j   |-> s.j + 3,
     i   |-> s.i + 1,
     len |-> s.len,
     out |-> s.out \o <<ToUint16(0), ToUint16(s.i), ToUint16(s.i + 1)>>]

\* for (j = 0; j < indices.length; j++) { body }
RECURSIVE IndexLoop(_, _)
IndexLoop(s, fuel) ==
    IF ~(s.j < s.len) THEN s
    ELSE IF fuel <= 1 THEN IndexBody(s)
    ELSE LET h == IndexLoop([s EXCEPT !.out = <<>>], fuel \div 2)
             r == IndexLoop([h EXCEPT !.out = <<>>], fuel - (fuel \div 2))
         IN  [r EXCEPT !.out = s.out \o h.out \o r.out]

\* Typed arrays are kept in pages of PageSize slots.
PageSize == 256

\* A typed array of the given length, zero-filled at creation, after the
\* writes of a loop that stores into consecutive slots from slot 0 on; a
\* store past the end of a typed array is dropped.
TypedArray(len, zero, writes) ==
    [length |-> len,
     pages  |-> [p \in 1..((len + PageSize - 1) \div PageSize) |->
                   [k \in 1..(IF p * PageSize <= len THEN PageSize ELSE len - (p - 1) * PageSize) |->
                      LET slot == (p - 1) * PageSize + k
                      IN  IF slot <= Len(writes) THEN writes[slot] ELSE zero]]]

\* array[slot], slots counted from 0
At(array, slot) == array.pages[(slot \div PageSize) + 1][(slot % PageSize) + 1]

\* computeSector(options)
computeSector(opts) ==
    LET granularity == opts.granularity
        radius      == opts.radius
        rotation    == toRadians(opts.rotation, FALSE).value
        sectorAngle == opts.sectorAngle
        numPts      == NumPts(sectorAngle, granularity)
        theta       == Theta(sectorAngle, numPts)
        plen        == TypedArrayLength(Mul(Add(numPts, Num(1, 1)), Num(3, 1)))
        ploop       == PositionLoop([i |-> 3, len |-> plen, angle |-> rotation,
                                     out |-> <<Zero64, Zero64, Zero64>>],
                                    radius, theta, plen)
        positions   == TypedArray(plen, Zero64, ploop.out)
        ilen        == TypedArrayLength(Mul(Add(numPts, Num(-1, 1)), Num(3, 1)))
        iloop       == IndexLoop([j |-> 0, i |-> 1, len |-> ilen, out |-> <<>>], ilen)
        indices     == TypedArray(ilen, 0, iloop.out)
    IN  [positions      |-> positions,
         indices        |-> indices,
         primitiveType  |-> "TRIANGLES",
         boundingSphere |-> [center |-> <<Zero64, Zero64, Zero64>>, radius |-> radius]]

\* SectorGeometry.createGeometry(sectorGeometry)
SectorCreateGeometry(sectorGeometry) ==
    computeSector([radius      |-> sectorGeometry._radius,
                   sectorAngle |-> sectorGeometry._sectorAngle,
                   rotation    |-> sectorGeometry._rotation,
                   granularity |-> sectorGeometry._granularity])

(***************************************************************************)
(* The ellipse outline generator (EllipseOutlineGeometry), a collaborator  *)
(***************************************************************************)
\* new EllipseOutlineGeometry(options): the description keeps its options
EllipseOutlineGeometry(opts) == opts

\* The k-th double (k from 0) of the position buffer of the outline of the
\* description e: a coordinate that depends on the outline and on the slot.
OutlineValue(e, k) == <<"outline", e.semiMajorAxis.n, e.semiMajorAxis.d, k>>

\* EllipseOutlineGeometry.createGeometry(e), for an outline of n vertices
\* whose index buffer is walk (indices from 0)
EllipseOutlineCreateGeometry(e, n, walk) ==
    [values  |-> [k \in 1..(3 * n) |-> OutlineValue(e, k - 1)],
     indices |-> walk]

(***************************************************************************)
(* RingGeometry                                                            *)
(***************************************************************************)
\* The options of one outline: the ring's options with both axes set to
\* the given radius.
EllipseGeometryOptions(opts, radius) ==
    [center                |-> opts.center,
     semiMajorAxis         |-> radius,
     semiMinorAxis         |-> radius,
     ellipsoid             |-> opts.ellipsoid,
     height                |-> opts.height,
     extrudedHeight        |-> opts.extrudedHeight,
     granularity           |-> opts.granularity,
     numberOfVerticalLines |-> opts.numberOfVerticalLines]

\* RingGeometry with the outlines constructed before the radii are validated
RingGeometry_LateValidation(opts) ==
    LET outerRadius == opts.outerRadius
        innerRadius == opts.innerRadius
        innerEllipseGeometryOptions == EllipseGeometryOptions(opts, innerRadius)
        outerEllipseGeometryOptions == EllipseGeometryOptions(opts, outerRadius)
        made == <<innerEllipseGeometryOptions, outerEllipseGeometryOptions>>
        fail(msg) == [threw |-> TRUE, error |-> msg, value |-> <<>>, calls |-> made]
    IN  IF ~defined(outerRadius) THEN fail("DeveloperError: outerRadius must be specified!")
        ELSE IF TypeOf(outerRadius) # "number" THEN fail("DeveloperError: outerRadius must be a number!")
        ELSE IF Le(outerRadius, Zero) THEN fail("DeveloperError: outerRadius must be a positive number")
        ELSE IF ~defined(innerRadius) THEN fail("DeveloperError: innerRadius must be specified!")
        ELSE IF TypeOf(innerRadius) # "number" THEN fail("DeveloperError: innerRadius must be a number!")
        ELSE IF Le(innerRadius, Zero) \/ Ge(innerRadius, outerRadius)
             THEN fail("DeveloperError: innerRadius must be a positive number and less than outerRadius")
        ELSE [threw |-> FALSE,
              error |-> "",
              value |-> [t                     |-> "object",
                         _innerEllipseGeometry |-> EllipseOutlineGeometry(innerEllipseGeometryOptions),
                         _outerEllipseGeometry |-> EllipseOutlineGeometry(outerEllipseGeometryOptions),
                         _workerName           |-> "createRingGeometry"],
              calls |-> made]

\* new RingGeometry(options); calls lists the outline descriptions
\* constructed, in order.
RingGeometry(opts) ==
    LET outerRadius == opts.outerRadius
        innerRadius == opts.innerRadius
        innerEllipseGeometryOptions == EllipseGeometryOptions(opts, innerRadius)
        outerEllipseGeometryOptions == EllipseGeometryOptions(opts, outerRadius)
        fail(msg) == [threw |-> TRUE, error |-> msg, value |-> <<>>, calls |-> <<>>]
    IN  IF ~defined(outerRadius) THEN fail("DeveloperError: outerRadius must be specified!")
        ELSE IF TypeOf(outerRadius) # "number" THEN fail("DeveloperError: outerRadius must be a number!")
        ELSE IF Le(outerRadius, Zero) THEN fail("DeveloperError: outerRadius must be a positive number")
        ELSE IF ~defined(innerRadius) THEN fail("DeveloperError: innerRadius must be specified!")
        ELSE IF TypeOf(innerRadius) # "number" THEN fail("DeveloperError: innerRadius must be a number!")
        ELSE IF Le(innerRadius, Zero) \/ Ge(innerRadius, outerRadius)
             THEN fail("DeveloperError: innerRadius must be a positive number and less than outerRadius")
        ELSE [threw |-> FALSE,
              error |-> "",
              value |-> [t                     |-> "object",
                         _innerEllipseGeometry |-> EllipseOutlineGeometry(innerEllipseGeometryOptions),
                         _outerEllipseGeometry |-> EllipseOutlineGeometry(outerEllipseGeometryOptions),
                         _workerName           |-> "createRingGeometry"],
              calls |-> <<innerEllipseGeometryOptions, outerEllipseGeometryOptions>>]

\* Cartesian3.fromElements(x, y, z)
fromElements(x, y, z) == [x |-> x, y |-> y, z |-> z]

\* what reading past the end of an array yields
UndefinedElement == [x |-> Undefined, y |-> Undefined, z |-> Undefined]

\* for (var i = 0; i < numElements; i++) { cart3s.push(fromElements(vals[3i], vals[3i+1], vals[3i+2])) }
RECURSIVE Cart3Loop(_, _, _, _)
Cart3Loop(i, numElements, vals, cart3s) ==
    IF i < numElements
    THEN LET j == i * 3
         IN  Cart3Loop(i + 1, numElements, vals,
                       Append(cart3s, fromElements(vals[j + 1], vals[j + 2], vals[j + 3])))
    ELSE cart3s

\* for (i = 0; i < indices.length; i++) { positions.push(cart3s[indices[i]]) }
RECURSIVE WalkLoop(_, _, _, _)
WalkLoop(i, indices, cart3s, positions) ==
    IF i < Len(indices)
    THEN LET at == indices[i + 1]
         IN  WalkLoop(i + 1, indices, cart3s,
                      Append(positions,
                             IF at < Len(cart3s) THEN cart3s[at + 1] ELSE UndefinedElement))
    ELSE positions

\* RingCreateGeometry with the two walks returned under each other's name
RingCreateGeometry_Swapped(ringGeometry, innerGeom, outerGeom) ==
    IF ~defined(ringGeometry)
    THEN Throw("TypeError: Cannot read property '_innerEllipseGeometry' of undefined")
    ELSE LET cart3s         == Cart3Loop(0, Len(innerGeom.values) \div 3, innerGeom.values, <<>>)
             outerCart3s    == Cart3Loop(0, Len(outerGeom.values) \div 3, outerGeom.values, <<>>)
             innerPositions == WalkLoop(0, innerGeom.indices, cart3s, <<>>)
             outerPositions == WalkLoop(0, outerGeom.indices, outerCart3s, <<>>)
         IN  Return([positions |-> innerPositions, holes |-> outerPositions])

\* RingGeometry.createGeometry(ringGeometry); innerGeom and outerGeom are what
\* the outline generator returns for the two descriptions of the ring.
RingCreateGeometry(ringGeometry, innerGeom, outerGeom) ==
    IF ~defined(ringGeometry)
    THEN Throw("TypeError: Cannot read property '_innerEllipseGeometry' of undefined")
    ELSE LET innerVals      == innerGeom.values
             outerVals      == outerGeom.values
             innerIndices   == innerGeom.indices
             outerIndices   == outerGeom.indices
             numElements    == Len(innerVals) \div 3
             numElements2   == Len(outerVals) \div 3
             cart3s         == Cart3Loop(0, numElements, innerVals, <<>>)
             outerCart3s    == Cart3Loop(0, numElements2, outerVals, <<>>)
             innerPositions == WalkLoop(0, innerIndices, cart3s, <<>>)
             outerPositions == WalkLoop(0, outerIndices, outerCart3s, <<>>)
             \* poly, the PolygonGeometry built from the two walks, is not used
         IN  Return([positions |-> outerPositions, holes |-> innerPositions])

(***************************************************************************)
(* The ring worker task                                                    *)
(***************************************************************************)
\* createRingGeometry(parameters, transferableObjects)
createRingGeometry(parameters, innerGeom, outerGeom) ==
    LET geometry_ == RingCreateGeometry(Undefined, innerGeom, outerGeom)
    IN  IF geometry_.threw THEN geometry_
        ELSE Return([geometry |-> geometry_.value, index |-> parameters.index])

(***************************************************************************)
(* Inputs                                                                  *)
(***************************************************************************)
MaxRadius == 3

MaxOutlinePoints == 2

MaxWalkLength == 3

MaxTaskIndex == 1

RadiusInputs == {Undefined, NonNumericString} \cup {Num(k, 1) : k \in -1..MaxRadius}

SectorAngleInputs ==
    {Undefined, NonNumericString}
        \cup {Num(k, 1) : k \in {-45, 0, 3, 7, 45, 90, 180, 315, 359, 360, 405}}

RotationInputs == {Undefined} \cup {Num(k, 1) : k \in {-1, 0, 90, 360, 400}}

GranularityInputs == {Undefined, Num(-1, 10), Zero, Num(1, 10), Num(1, 2), Num(1, 1), Num(7, 1)}

SectorOptions ==
    [shape : {"sector"}, radius : RadiusInputs, sectorAngle : SectorAngleInputs,
     rotation : RotationInputs, granularity : GranularityInputs,
     innerRadius : {Undefined}, outerRadius : {Undefined}, center : {Undefined},
     ellipsoid : {Undefined}, height : {Undefined}, extrudedHeight : {Undefined},
     numberOfVerticalLines : {Undefined}]

\* a granularity fine enough for more than 65535 arc points
WideSectorOptions ==
    [shape : {"sector"}, radius : {Num(1, 1)}, sectorAngle : {Num(350, 1)},
     rotation : {Undefined}, granularity : {Num(1, 10800)},
     innerRadius : {Undefined}, outerRadius : {Undefined}, center : {Undefined},
     ellipsoid : {Undefined}, height : {Undefined}, extrudedHeight : {Undefined},
     numberOfVerticalLines : {Undefined}]

RingOptions ==
    [shape : {"ring"}, radius : {Undefined}, sectorAngle : {Undefined},
     rotation : {Undefined}, granularity : {Undefined, Num(1, 50)},
     innerRadius : RadiusInputs \cup {NaN}, outerRadius : RadiusInputs \cup {NaN},
     center : {[t |-> "object", n |-> 0, d |-> 1]},
     ellipsoid : {Undefined}, height : {Undefined}, extrudedHeight : {Undefined},
     numberOfVerticalLines : {Undefined}]

RECURSIVE SeqsUpTo(_, _)
SeqsUpTo(S, len) ==
    IF len = 0 THEN {<<>>}
    ELSE LET shorter == SeqsUpTo(S, len - 1)
         IN  shorter \cup {Append(w, e) : w \in shorter, e \in S}

\* the outlines the generator may return: n vertices and an index buffer
OutlineChoices ==
    UNION {{[n |-> n, walk |-> w] : w \in SeqsUpTo(0..(n - 1), MaxWalkLength)}
               : n \in 1..MaxOutlinePoints}

(***************************************************************************)
(* The calls                                                               *)
(***************************************************************************)
Start(opts) ==
    /\ pc = "start"
    /\ options \in opts
    /\ debug \in BOOLEAN
    /\ this = Undefined
    /\ thrown = ""
    /\ ellipseLog = <<>>
    /\ geometry = <<>>
    /\ outlines = <<>>
    /\ task = <<>>

Init == Start(SectorOptions \cup WideSectorOptions \cup RingOptions)

\* var sector = new SectorGeometry(options)
NewSectorGeometry ==
    /\ pc = "start"
    /\ options.shape = "sector"
    /\ LET r == SectorGeometry(options, debug)
       IN  /\ pc' = IF r.threw THEN "sectorThrew" ELSE "sector"
           /\ this' = IF r.threw THEN Undefined ELSE r.value
           /\ thrown' = r.error
    /\ UNCHANGED <<options, debug, ellipseLog, geometry, outlines, task>>

\* SectorGeometry.createGeometry(sector)
CreateSectorGeometry ==
    /\ pc = "sector"
    /\ geometry' = SectorCreateGeometry(this)
    /\ pc' = "sectorGeometry"
    /\ UNCHANGED <<options, debug, this, thrown, ellipseLog, outlines, task>>

\* var ring = new RingGeometry(options)
NewRingGeometry ==
    /\ pc = "start"
    /\ options.shape = "ring"
    /\ LET r == RingGeometry(options)
       IN  /\ pc' = IF r.threw THEN "ringThrew" ELSE "ring"
           /\ this' = IF r.threw THEN Undefined ELSE r.value
           /\ thrown' = r.error
           /\ ellipseLog' = r.calls
    /\ UNCHANGED <<options, debug, geometry, outlines, task>>

\* RingGeometry.createGeometry(ring)
CreateRingGeometry ==
    /\ pc = "ring"
    /\ \E ci \in OutlineChoices, co \in OutlineChoices :
          LET innerGeom == EllipseOutlineCreateGeometry(this._innerEllipseGeometry, ci.n, ci.walk)
              outerGeom == EllipseOutlineCreateGeometry(this._outerEllipseGeometry, co.n, co.walk)
              r         == RingCreateGeometry(this, innerGeom, outerGeom)
          IN  /\ outlines' = IF r.threw THEN outlines
                              ELSE [inner |-> innerGeom, outer |-> outerGeom]
              /\ geometry' = r.value
              /\ thrown' = r.error
              /\ pc' = IF r.threw THEN "ringGeometryThrew" ELSE "ringGeometry"
    /\ UNCHANGED <<options, debug, this, ellipseLog, task>>

\* the task processor runs createRingGeometry on the parameters of a task
\* dispatched for the ring
RingWorkerTask ==
    /\ pc = "ring"
    /\ \E index \in 0..MaxTaskIndex, ci \in OutlineChoices, co \in OutlineChoices :
          LET innerGeom == EllipseOutlineCreateGeometry(this._innerEllipseGeometry, ci.n, ci.walk)
              outerGeom == EllipseOutlineCreateGeometry(this._outerEllipseGeometry, co.n, co.walk)
              parameters == [ringGeometry |-> this, index |-> index]
              r          == createRingGeometry(parameters, innerGeom, outerGeom)
          IN  /\ task' = [parameters |-> parameters, threw |-> r.threw,
                          error |-> r.error, result |-> r.value]
              /\ outlines' = IF r.threw THEN outlines
                              ELSE [inner |-> innerGeom, outer |-> outerGeom]
              /\ pc' = "taskDone"
    /\ UNCHANGED <<options, debug, this, thrown, ellipseLog, geometry>>

Next ==
    \/ NewSectorGeometry
    \/ CreateSectorGeometry
    \/ NewRingGeometry
    \/ CreateRingGeometry
    \/ RingWorkerTask

Spec == Init /\ [][Next]_vars

(***************************************************************************)
(* Properties                                                              *)
(***************************************************************************)
SectorCalled == options.shape = "sector" /\ pc # "start"

SectorConstructed == pc \in {"sector", "sectorGeometry"}

RingCalled == options.shape = "ring" /\ pc # "start"

OptGranularity == defaultValue(options.granularity, Num(1, 50))

OptRotation == defaultValue(options.rotation, Zero)

\* radius, rotation or granularity outside its bound
OtherBoundBroken ==
    \/ Le(options.radius, Zero)
    \/ Lt(OptRotation, Zero) \/ Gt(OptRotation, Num(360, 1))
    \/ Le(OptGranularity, Zero)

OtherBoundsMet ==
    /\ TypeOf(options.radius) = "number" /\ Gt(options.radius, Zero)
    /\ Ge(OptRotation, Zero) /\ Le(OptRotation, Num(360, 1))
    /\ Gt(OptGranularity, Zero)

\* C1 as stated: with options.sectorAngle read as an angle in radians,
\* construction fails and leaves no descriptor whenever radius <= 0, or
\* sectorAngle <= 0 or >= 2*pi, or rotation is outside [0, 360], or
\* granularity <= 0, and succeeds when all four bounds are met.
C1_AsStated ==
    SectorCalled =>
        /\ (OtherBoundBroken \/ Le(options.sectorAngle, Zero) \/ Ge(options.sectorAngle, TWO_PI))
              => (pc = "sectorThrew" /\ ~defined(this))
        /\ (OtherBoundsMet /\ Gt(options.sectorAngle, Zero) /\ Lt(options.sectorAngle, TWO_PI))
              => SectorConstructed

\* options.sectorAngle, an angle in degrees, after its conversion to radians
SectorAngleInRadians == Mul(options.sectorAngle, RADIANS_PER_DEGREE)

\* C1 amended: options.sectorAngle is an angle in degrees; construction fails
\* and leaves no descriptor whenever radius <= 0, or sectorAngle converted to
\* radians is <= 0 or >= 2*pi (360 degrees), or rotation is outside
\* [0, 360], or granularity <= 0, and succeeds for every numeric parameter
\* set that meets all four bounds.
C1_Amended ==
    SectorCalled =>
        /\ (OtherBoundBroken \/ Le(SectorAngleInRadians, Zero) \/ Ge(SectorAngleInRadians, TWO_PI))
              => (pc = "sectorThrew" /\ ~defined(this))
        /\ (OtherBoundsMet /\ Gt(SectorAngleInRadians, Zero) /\ Lt(SectorAngleInRadians, TWO_PI))
              => SectorConstructed

\* a sector of exactly 360 degrees, every other bound met, has been rejected
C1_Witness ==
    /\ pc = "sectorThrew"
    /\ OtherBoundsMet
    /\ options.sectorAngle = Num(360, 1)
    /\ ~defined(this)

\* C2: construction throws a DeveloperError whenever options.sectorAngle or
\* options.radius is not specified or is not a number, so that no such input
\* leaves a descriptor for createGeometry to run on.
C2_AsStated ==
    (/\ SectorCalled
     /\ \/ ~defined(options.sectorAngle) \/ TypeOf(options.sectorAngle) # "number"
        \/ ~defined(options.radius) \/ TypeOf(options.radius) # "number")
        => (pc = "sectorThrew" /\ ~defined(this))

\* the sector geometry of a valid parameter set has been built
SectorBuilt == pc = "sectorGeometry" /\ this._sectorAngle.t = "num"

\* numPts = 1 + ceil(sectorAngle / granularity) of the constructed sector
ClaimNumPts == 1 + Ceil(Div(this._sectorAngle, this._granularity)).n

\* C3: for every valid sector, numPts >= 2, the position buffer holds
\* 3*(numPts+1) numbers of which the first three are the origin, the index
\* list holds 3*(numPts-1) entries and every index is below numPts+1.
C3_BufferSizes ==
    SectorBuilt =>
        /\ ClaimNumPts >= 2
        /\ geometry.positions.length = 3 * (ClaimNumPts + 1)
        /\ \A s \in 0..2 : At(geometry.positions, s) = Zero64
        /\ geometry.indices.length = 3 * (ClaimNumPts - 1)
        /\ \A s \in 0..(geometry.indices.length - 1) :
              At(geometry.indices, s) >= 0 /\ At(geometry.indices, s) < ClaimNumPts + 1

\* a sector of more than two arc points, hence several triangles, was built
C3_Witness == SectorBuilt /\ ClaimNumPts > 2 /\ geometry.indices.length = 3 * (ClaimNumPts - 1)

\* C4: constructing a ring fails whenever innerRadius >= outerRadius, a
\* radius is <= 0, or a radius is missing or not of type number, and then no
\* ellipse outline description has been constructed.
C4_RingRejected ==
    (/\ RingCalled
     /\ \/ ~defined(options.innerRadius) \/ TypeOf(options.innerRadius) # "number"
        \/ ~defined(options.outerRadius) \/ TypeOf(options.outerRadius) # "number"
        \/ Le(options.innerRadius, Zero) \/ Le(options.outerRadius, Zero)
        \/ Ge(options.innerRadius, options.outerRadius))
        => (pc = "ringThrew" /\ ~defined(this) /\ ellipseLog = <<>>)

\* a ring of equal positive radii has been rejected
C4_Witness ==
    /\ pc = "ringThrew"
    /\ Gt(options.innerRadius, Zero)
    /\ options.innerRadius = options.outerRadius
    /\ ellipseLog = <<>>

\* the point that the entry at of an outline's index buffer refers to
OutlinePoint(geom, at) ==
    fromElements(geom.values[3 * at + 1], geom.values[3 * at + 2], geom.values[3 * at + 3])

\* seq is the walk of the outline geom
IsWalkOf(seq, geom) ==
    /\ Len(seq) = Len(geom.indices)
    /\ \A i \in 1..Len(seq) : seq[i] = OutlinePoint(geom, geom.indices[i])

\* C5: createGeometry returns the walk of the outer outline as positions and
\* the walk of the inner outline as holes: each has the length of its
\* outline's index buffer and its i-th element is the point at indices[i].
C5_WalksReturned ==
    pc = "ringGeometry" =>
        /\ IsWalkOf(geometry.positions, outlines.outer)
        /\ IsWalkOf(geometry.holes, outlines.inner)

\* a ring whose two outlines have walks of different lengths has been built
C5_Witness ==
    /\ pc = "ringGeometry"
    /\ Len(geometry.positions) > 1
    /\ Len(geometry.holes) > 0
    /\ Len(geometry.positions) # Len(geometry.holes)

\* C6: every task dispatched for a constructed ring completes and returns
\* the geometry of that ring together with the index of the task.
C6_AsStated ==
    pc = "taskDone" =>
        /\ ~task.threw
        /\ task.result.index = task.parameters.index
        /\ IsWalkOf(task.result.geometry.positions, outlines.outer)
        /\ IsWalkOf(task.result.geometry.holes, outlines.inner)

\* C7: for every valid sector the index list is a triangle fan: for every k
\* in 1..numPts-1 the (k-1)-th triple is (0, k, k+1).
C7_AsStated ==
    SectorBuilt =>
        \A k \in 1..(ClaimNumPts - 1) :
            /\ At(geometry.indices, 3 * (k - 1)) = 0
            /\ At(geometry.indices, 3 * (k - 1) + 1) = k
            /\ At(geometry.indices, 3 * (k - 1) + 2) = k + 1

ClaimTheta == Div(this._sectorAngle, Num(ClaimNumPts - 1, 1))

ClaimRotation == Mul(this._rotation, RADIANS_PER_DEGREE)

\* C8: the arc point of vertex k (1 <= k <= numPts) is the start direction
\* rotated k-1 times by theta = sectorAngle/(numPts-1); the first is at angle
\* rotation, the last at rotation + sectorAngle, and theta <= granularity.
C8_ArcSteps ==
    SectorBuilt =>
        /\ \A k \in 1..ClaimNumPts :
              LET angle == Add(ClaimRotation, Mul(Num(k - 1, 1), ClaimTheta))
              IN  /\ At(geometry.positions, 3 * k) = XTimes(angle, this._radius)
                  /\ At(geometry.positions, 3 * k + 1) = YTimes(angle, this._radius)
                  /\ At(geometry.positions, 3 * k + 2) = Zero64
        /\ At(geometry.positions, 3 * ClaimNumPts)
              = XTimes(Add(ClaimRotation, this._sectorAngle), this._radius)
        /\ Le(ClaimTheta, this._granularity)

\* a rotated sector of several steps, each shorter than the granularity
C8_Witness ==
    /\ SectorBuilt
    /\ ClaimNumPts > 3
    /\ Gt(this._rotation, Zero)
    /\ Lt(ClaimTheta, this._granularity)
    /\ At(geometry.positions, 3) = XTimes(ClaimRotation, this._radius)

NoRepeat(seq) == \A i, j \in 1..Len(seq) : i # j => seq[i] # seq[j]

\* C9: no returned boundary or hole sequence contains the same outline
\* vertex twice, whatever index buffer the outline generator returned.
C9_AsStated ==
    pc = "ringGeometry" => NoRepeat(geometry.positions) /\ NoRepeat(geometry.holes)

\* C10: for every valid sector the value read back from each slot of the
\* unsigned 16-bit index list is the vertex number written there; the largest
\* one, numPts, is at most 65535.
C10_AsStated ==
    SectorBuilt =>
        /\ ClaimNumPts <= 65535
        /\ \A k \in 1..(ClaimNumPts - 1) :
              /\ At(geometry.indices, 3 * k - 2) = k
              /\ At(geometry.indices, 3 * k - 1) = k + 1

====
